---- MODULE Spec2Model ----
(***************************************************************************)
(* Model of peterbot-sandbox/build_dev.py: a module whose top-level        *)
(* statements load a .env file into os.environ, import the e2b SDK and the *)
(* template definition and, when run as the main program, issue one        *)
(* blocking Template.build call.                                           *)
(*                                                                         *)
(* The process is modelled statement by statement (pc indexes Program).    *)
(* What lies outside the script (the .env file, the ambient environment,   *)
(* whether an import succeeds, the build service's answer) is chosen       *)
(* nondeterministically.  A "run" is one process; NewRun starts the next   *)
(* process, the build service's log and artifacts survive across runs.     *)
(***************************************************************************)
EXTENDS Naturals, Sequences, FiniteSets

\* ------------------------------------------------------------ bounds
MaxRuns == 2

\* ------------------------------------------------------------ values
Keys == {"E2B_API_KEY", "E2B_DOMAIN"}
Values == {"v1", "v2"}
Unset == "<unset>"
EnvVal == Values \cup {Unset}
Envs == [Keys -> EnvVal]

\* the .env file load_dotenv() looks for: not there, there but not readable,
\* or there with key=value pairs
NoVars == [k \in Keys |-> Unset]
DotenvFiles ==
    {[state |-> "absent", vars |-> NoVars], [state |-> "unreadable", vars |-> NoVars]}
        \cup {[state |-> "present", vars |-> e] : e \in Envs}

\* the value template.py binds to the name `template`
Templates == {"tplA", "tplB"}
NoTemplate == "<unbound>"

\* __name__ of the module: run as a script, or imported
Names == {"__main__", "build_dev"}

\* the callback default_build_logger() returns
DefaultBuildLogger == "default_build_logger()"

BuildErrors == {"auth", "network", "validation"}

\* ------------------------------------------------------------ the script
\* build_dev.py's top-level statements, in file order
ProgramLoadLast == <<"import_sdk", "import_template", "load_dotenv", "main_block">>
Program == <<"load_dotenv", "import_sdk", "import_template", "main_block">>

PastEnd == Len(Program) + 1

TargetNameProd == "peterbot-sandbox"
TargetName == "peterbot-sandbox-dev"

\* the arguments of Template.build(template, "peterbot-sandbox-dev", on_build_logs=...)
BuildRequestRenamed(t, r) ==
    [template |-> t, name |-> TargetNameProd, on_build_logs |-> DefaultBuildLogger, run |-> r]
BuildRequest(t, r) ==
    [template |-> t, name |-> TargetName, on_build_logs |-> DefaultBuildLogger, run |-> r]

\* load_dotenv() with its defaults (override=False): a key of the file is
\* set only when the environment does not have it already
LoadDotenvEnv(env, file) ==
    [k \in Keys |-> IF env[k] # Unset THEN env[k] ELSE file[k]]

\* an uncaught exception ends the interpreter with status 1, the end of the
\* module with status 0; NoExit (no exit status is 256) marks a live process
UncaughtExit == 1
NormalExit == 0
NoExit == 255 + 1

VARIABLES
    run,        \* number of the current process
    name,       \* __name__ of the module in this process
    pc,         \* index of the next statement of Program
    status,     \* "running", "blocked" (inside Template.build), "exited"
    exitCode,   \* NoExit while the process lives
    raisedAt,   \* index of the statement whose exception ended the process, 0 if none
    ambient,    \* the environment the process inherits
    dotenvFile, \* the .env file
    templateDef,\* what template.py defines
    environ,    \* os.environ
    envAtLoad,  \* os.environ when load_dotenv returned
    envAtBuild, \* os.environ when Template.build was called
    loaded,     \* load_dotenv has returned
    sdk,        \* e2b.Template and e2b.default_build_logger are bound
    template,   \* the name `template`
    steps,      \* statements this process has started, in order
    issued,     \* Template.build calls made by this process
    service,    \* the call in flight: "idle", "pending", "completed", "errored"
    buildErrors,\* calls of this process the service answered with an error
    error,      \* why the call in flight failed, "none" if it has not
    requests,   \* build requests the service has received, all runs
    artifacts,  \* artifacts the service has produced: [name, run]
    history     \* finished runs: [name, raisedAt, exitCode]

vars == <<run, name, pc, status, exitCode, raisedAt, ambient, dotenvFile, templateDef,
          environ, envAtLoad, envAtBuild, loaded, sdk, template, steps, issued,
          service, buildErrors, error, requests, artifacts, history>>

inputs == <<ambient, dotenvFile, templateDef>>
serviceVars == <<service, buildErrors, error, requests, artifacts>>
bindings == <<environ, envAtLoad, envAtBuild, loaded, sdk, template>>

TypeOK ==
    /\ run \in 1..MaxRuns
    /\ name \in Names
    /\ pc \in 1..PastEnd
    /\ status \in {"running", "blocked", "exited"}
    /\ exitCode \in {NoExit, NormalExit, UncaughtExit}
    /\ raisedAt \in 0..Len(Program)
    /\ ambient \in Envs /\ environ \in Envs /\ envAtLoad \in Envs /\ envAtBuild \in Envs
    /\ dotenvFile \in DotenvFiles
    /\ templateDef \in Templates
    /\ template \in Templates \cup {NoTemplate}
    /\ loaded \in BOOLEAN /\ sdk \in BOOLEAN
    /\ issued \in Nat /\ buildErrors \in Nat
    /\ service \in {"idle", "pending", "completed", "errored"}
    /\ error \in BuildErrors \cup {"none"}
    /\ \A i \in 1..Len(requests) : requests[i].run \in 1..run
    /\ \A a \in artifacts : a.run \in 1..run
    /\ Len(history) = run - 1

\* a fresh interpreter: nothing executed yet
Init ==
    /\ run = 1
    /\ name \in Names
    /\ pc = 1
    /\ status = "running"
    /\ exitCode = NoExit
    /\ raisedAt = 0
    /\ ambient \in Envs
    /\ dotenvFile \in DotenvFiles
    /\ templateDef \in Templates
    /\ environ = ambient
    /\ envAtLoad = ambient
    /\ envAtBuild = ambient
    /\ loaded = FALSE
    /\ sdk = FALSE
    /\ template = NoTemplate
    /\ steps = << >>
    /\ issued = 0
    /\ service = "idle"
    /\ buildErrors = 0
    /\ error = "none"
    /\ requests = << >>
    /\ artifacts = {}
    /\ history = << >>

At(stmt) == status = "running" /\ pc <= Len(Program) /\ Program[pc] = stmt

\* an exception nobody catches: traceback, exit status 1
Raise ==
    /\ status' = "exited"
    /\ exitCode' = UncaughtExit
    /\ raisedAt' = pc
    /\ pc' = pc

Advance ==
    /\ pc' = pc + 1
    /\ UNCHANGED <<status, exitCode, raisedAt>>

\* line 4: load_dotenv().  Its result (whether a file was found) is dropped.
\* A missing file leaves os.environ as it is; opening a file that cannot be
\* read raises.
LoadDotenvStrict ==
    /\ At("load_dotenv")
    /\ steps' = Append(steps, "load_dotenv")
    /\ IF dotenvFile.state # "present"
         THEN /\ Raise
              /\ UNCHANGED bindings
         ELSE /\ Advance
              /\ environ' = LoadDotenvEnv(environ, dotenvFile.vars)
              /\ envAtLoad' = environ'
              /\ loaded' = TRUE
              /\ UNCHANGED <<envAtBuild, sdk, template>>
    /\ UNCHANGED <<run, name, inputs, issued, serviceVars, history>>

LoadDotenv ==
    /\ At("load_dotenv")
    /\ steps' = Append(steps, "load_dotenv")
    /\ IF dotenvFile.state = "unreadable"
         THEN /\ Raise
              /\ UNCHANGED bindings
         ELSE /\ Advance
              /\ environ' = IF dotenvFile.state = "absent"
                              THEN environ
                              ELSE LoadDotenvEnv(environ, dotenvFile.vars)
              /\ envAtLoad' = environ'
              /\ loaded' = TRUE
              /\ UNCHANGED <<envAtBuild, sdk, template>>
    /\ UNCHANGED <<run, name, inputs, issued, serviceVars, history>>

\* line 6: from e2b import Template, default_build_logger.  The import
\* either binds the two names or raises (ImportError); nothing catches it.
ImportSdkGuarded ==
    /\ At("import_sdk")
    /\ steps' = Append(steps, "import_sdk")
    /\ \/ /\ Advance
          /\ sdk' = TRUE
       \/ /\ pc' = pc + 1
          /\ raisedAt' = pc
          /\ sdk' = TRUE
          /\ UNCHANGED <<status, exitCode>>
    /\ UNCHANGED <<environ, envAtLoad, envAtBuild, loaded, template>>
    /\ UNCHANGED <<run, name, inputs, issued, serviceVars, history>>

ImportSdk ==
    /\ At("import_sdk")
    /\ steps' = Append(steps, "import_sdk")
    /\ \/ /\ Advance
          /\ sdk' = TRUE
       \/ /\ Raise
          /\ sdk' = sdk
    /\ UNCHANGED <<environ, envAtLoad, envAtBuild, loaded, template>>
    /\ UNCHANGED <<run, name, inputs, issued, serviceVars, history>>

\* line 7: from template import template.  Binds the template definition
\* as template.py defines it, or raises.
ImportTemplate ==
    /\ At("import_template")
    /\ steps' = Append(steps, "import_template")
    /\ \/ /\ Advance
          /\ template' = templateDef
       \/ /\ Raise
          /\ template' = template
    /\ UNCHANGED <<environ, envAtLoad, envAtBuild, loaded, sdk>>
    /\ UNCHANGED <<run, name, inputs, issued, serviceVars, history>>

\* the call of lines 11-15 enters the SDK: the request goes out and the
\* process waits inside Template.build
IssueBuild(req) ==
    /\ requests' = Append(requests, req)
    /\ issued' = issued + 1
    /\ service' = "pending"
    /\ status' = "blocked"
    /\ envAtBuild' = environ
    /\ UNCHANGED <<pc, exitCode, raisedAt, buildErrors, error, artifacts>>

SkipBuild ==
    /\ Advance
    /\ UNCHANGED <<issued, serviceVars, envAtBuild>>

\* lines 10-15: if __name__ == "__main__": Template.build(...)
MainBlockUnguarded ==
    /\ At("main_block")
    /\ steps' = Append(steps, "main_block")
    /\ IssueBuild(BuildRequest(template, run))
    /\ UNCHANGED <<environ, envAtLoad, loaded, sdk, template>>
    /\ UNCHANGED <<run, name, inputs, history>>

MainBlockCached ==
    /\ At("main_block")
    /\ steps' = Append(steps, "main_block")
    /\ IF name = "__main__" /\ ~(\E a \in artifacts : a.name = TargetName)
         THEN IssueBuild(BuildRequest(template, run))
         ELSE SkipBuild
    /\ UNCHANGED <<environ, envAtLoad, loaded, sdk, template>>
    /\ UNCHANGED <<run, name, inputs, history>>

MainBlockSetsEnv ==
    /\ At("main_block")
    /\ steps' = Append(steps, "main_block")
    /\ IF name = "__main__"
         THEN /\ IssueBuild(BuildRequest(template, run))
              /\ environ' = [environ EXCEPT !["E2B_DOMAIN"] = "v2"]
         ELSE /\ SkipBuild
              /\ environ' = environ
    /\ UNCHANGED <<envAtLoad, loaded, sdk, template>>
    /\ UNCHANGED <<run, name, inputs, history>>

MainBlock ==
    /\ At("main_block")
    /\ steps' = Append(steps, "main_block")
    /\ IF name = "__main__"
         THEN IssueBuild(BuildRequest(template, run))
         ELSE SkipBuild
    /\ UNCHANGED <<environ, envAtLoad, loaded, sdk, template>>
    /\ UNCHANGED <<run, name, inputs, history>>

\* the build service finishes the build: the artifact exists
ServiceCompletes ==
    /\ service = "pending"
    /\ service' = "completed"
    /\ artifacts' = artifacts \cup {[name |-> requests[Len(requests)].name, run |-> run]}
    /\ UNCHANGED <<buildErrors, error, requests>>
    /\ UNCHANGED <<run, name, pc, status, exitCode, raisedAt, inputs, bindings, steps,
                   issued, history>>

\* the build service cannot be reached or rejects the build
ServiceErrors ==
    /\ service = "pending"
    /\ service' = "errored"
    /\ \E e \in BuildErrors : error' = e
    /\ buildErrors' = buildErrors + 1
    /\ UNCHANGED <<requests, artifacts>>
    /\ UNCHANGED <<run, name, pc, status, exitCode, raisedAt, inputs, bindings, steps,
                   issued, history>>

\* Template.build returns; its value is dropped (an expression statement)
BuildReturns ==
    /\ status = "blocked"
    /\ service = "completed"
    /\ status' = "running"
    /\ pc' = pc + 1
    /\ UNCHANGED <<exitCode, raisedAt>>
    /\ UNCHANGED <<run, name, inputs, bindings, steps, issued, serviceVars, history>>

\* Template.build raises; no try statement encloses the call
BuildRaisesRetry ==
    /\ status = "blocked"
    /\ service = "errored"
    /\ requests' = Append(requests, BuildRequest(template, run))
    /\ issued' = issued + 1
    /\ service' = "pending"
    /\ error' = "none"
    /\ UNCHANGED <<buildErrors, artifacts>>
    /\ UNCHANGED <<pc, status, exitCode, raisedAt>>
    /\ UNCHANGED <<run, name, inputs, bindings, steps, history>>

BuildRaisesOrTimesOut ==
    /\ status = "blocked"
    /\ service \in {"pending", "errored"}
    /\ Raise
    /\ UNCHANGED <<run, name, inputs, bindings, steps, issued, serviceVars, history>>

BuildRaises ==
    /\ status = "blocked"
    /\ service = "errored"
    /\ Raise
    /\ UNCHANGED <<run, name, inputs, bindings, steps, issued, serviceVars, history>>

\* the last statement is done: the interpreter exits with status 0
ModuleEnd ==
    /\ status = "running"
    /\ pc = PastEnd
    /\ status' = "exited"
    /\ exitCode' = NormalExit
    /\ UNCHANGED <<pc, raisedAt>>
    /\ UNCHANGED <<run, name, inputs, bindings, steps, issued, serviceVars, history>>

\* the script is started again: a new process, which inherits the ambient
\* environment and nothing of the previous process
NewRun ==
    /\ status = "exited"
    /\ run < MaxRuns
    /\ run' = run + 1
    /\ history' = Append(history, [name |-> name, raisedAt |-> raisedAt,
                                   exitCode |-> exitCode])
    /\ name' \in Names
    /\ pc' = 1
    /\ status' = "running"
    /\ exitCode' = NoExit
    /\ raisedAt' = 0
    /\ environ' = ambient
    /\ envAtLoad' = ambient
    /\ envAtBuild' = ambient
    /\ loaded' = FALSE
    /\ sdk' = FALSE
    /\ template' = NoTemplate
    /\ steps' = << >>
    /\ issued' = 0
    /\ service' = "idle"
    /\ buildErrors' = 0
    /\ error' = "none"
    /\ UNCHANGED <<inputs, requests, artifacts>>

ProcessStep ==
    \/ LoadDotenv
    \/ ImportSdk
    \/ ImportTemplate
    \/ MainBlock
    \/ BuildReturns
    \/ BuildRaises
    \/ ModuleEnd

Next ==
    \/ LoadDotenv
    \/ ImportSdk
    \/ ImportTemplate
    \/ MainBlock
    \/ ServiceCompletes
    \/ ServiceErrors
    \/ BuildReturns
    \/ BuildRaises
    \/ ModuleEnd
    \/ NewRun

Spec == Init /\ [][Next]_vars

\* the interpreter keeps executing: a statement that can run does run
FairSpec == Spec /\ WF_vars(ProcessStep)

\* ------------------------------------------------------------ properties

Started(stmt) == \E i \in 1..Len(steps) : steps[i] = stmt

Before(a, b) ==
    \A i, j \in 1..Len(steps) : steps[i] = a /\ steps[j] = b => i < j

\* the build requests of the current process, as the service received them
RunRequests == SelectSeq(requests, LAMBDA q : q.run = run)

\* the exception that ended the process came from a statement before the build call
RaisedBeforeBuild == raisedAt \in 1..3

\* C1: the configuration load has completed before the template definition
\* is resolved and before the build request is issued; the statements run
\* in the order load configuration, resolve template, invoke build.
C1_ConfigLoadedBeforeBuild ==
    /\ (template # NoTemplate => loaded)
    /\ (Started("import_template") => loaded)
    /\ (issued > 0 \/ Len(RunRequests) > 0 => loaded /\ template # NoTemplate)
    /\ (Started("main_block") => Started("load_dotenv") /\ Started("import_template"))
    /\ Before("load_dotenv", "import_template")
    /\ Before("load_dotenv", "main_block")
    /\ Before("import_template", "main_block")

C1_Witness ==
    /\ issued = 1
    /\ loaded
    /\ dotenvFile.state = "present"
    /\ environ # ambient
    /\ steps = <<"load_dotenv", "import_sdk", "import_template", "main_block">>

\* C2: one invocation of the script issues exactly one build request, which
\* carries the imported template definition unchanged, the target name
\* "peterbot-sandbox-dev" and the default log callback; no process issues
\* more than one build request.
C2_ExactlyOneBuildRequest ==
    /\ issued <= 1
    /\ Len(RunRequests) = issued
    /\ \A i \in 1..Len(RunRequests) :
          RunRequests[i] = [template |-> templateDef,
                            name |-> "peterbot-sandbox-dev",
                            on_build_logs |-> "default_build_logger()",
                            run |-> run]
    /\ (name = "__main__" /\ status = "exited" /\ raisedAt = 0 => issued = 1)
    /\ (name = "__main__" /\ Started("main_block") => issued = 1)

C2_Witness ==
    /\ name = "__main__"
    /\ dotenvFile.state = "present"
    /\ status = "exited"
    /\ exitCode = 0
    /\ Len(RunRequests) = 1

\* C3: when the build call fails (authentication, network, validation) the
\* script does not catch the failure: the process ends with a non-zero exit
\* status, the build is not requested again and the run produces no artifact.
C3_BuildFailureNotCaught ==
    buildErrors > 0 =>
        /\ buildErrors = 1
        /\ issued = 1
        /\ Len(RunRequests) = 1
        /\ status \in {"blocked", "exited"}
        /\ (status = "blocked" => service = "errored")
        /\ (status = "exited" => exitCode # 0 /\ raisedAt = 4)
        /\ ~ \E a \in artifacts : a.run = run

C3_Witness ==
    /\ buildErrors = 1
    /\ error = "network"
    /\ status = "exited"
    /\ exitCode = 1

\* C4: with no .env file the configuration load does not fail, the
\* environment stays as the process inherited it, and the script still
\* issues the build request.
C4_AbsentFileStillBuilds ==
    dotenvFile.state = "absent" =>
        /\ (raisedAt > 0 => Program[raisedAt] # "load_dotenv")
        /\ (Started("load_dotenv") => loaded /\ environ = ambient)
        /\ (name = "__main__" /\ status = "exited" /\ raisedAt \notin {2, 3} => issued = 1)

C4_Witness ==
    /\ dotenvFile.state = "absent"
    /\ ambient # NoVars
    /\ loaded
    /\ issued = 1

\* C6 as stated: the only failure class is a build-service error, so every
\* execution run as a script reaches the build call.
C6_OnlyBuildErrors ==
    name = "__main__" /\ status = "exited" => issued >= 1 /\ raisedAt \in {0, 4}

\* C6 amended: a missing configuration file is ignored, but the statements
\* before the build call are not guarded: an exception raised by the
\* configuration load, the SDK import or the template import ends the process
\* with a non-zero status and no build request; an execution run as a script
\* reaches the build call exactly when none of these statements raises.
C6_UnguardedPrelude ==
    /\ (dotenvFile.state = "absent" => raisedAt # 1)
    /\ (RaisedBeforeBuild => status = "exited" /\ exitCode # 0 /\ issued = 0)
    /\ (name = "__main__" /\ status = "exited" => (issued = 1 <=> ~RaisedBeforeBuild))

C6_Witness ==
    /\ name = "__main__"
    /\ status = "exited"
    /\ raisedAt = 2
    /\ dotenvFile.state = "present"
    /\ issued = 0

\* C7: the script keeps no state between runs: k runs in sequence that reach
\* the build call issue k build requests, one per run, all with the same
\* target name, whether earlier runs succeeded or failed.
ReachedBuild(h) == h.name = "__main__" /\ h.raisedAt \notin 1..3

C7_NoStateBetweenRuns ==
    /\ Len(requests) =
          Cardinality({i \in 1..Len(history) : ReachedBuild(history[i])})
              + (IF name = "__main__" /\ Started("main_block") THEN 1 ELSE 0)
    /\ \A i \in 1..Len(history) :
          ReachedBuild(history[i]) <=> (\E j \in 1..Len(requests) : requests[j].run = i)
    /\ \A i, j \in 1..Len(requests) : requests[i].run = requests[j].run => i = j
    /\ \A i \in 1..Len(requests) : requests[i].name = "peterbot-sandbox-dev"

C7_Witness ==
    /\ run = 2
    /\ history[1].exitCode = 0
    /\ (\E a \in artifacts : a.run = 1 /\ a.name = "peterbot-sandbox-dev")
    /\ Len(requests) = 2
    /\ requests[1].name = requests[2].name

\* C8: once the build request is issued the process leaves the call only when
\* the service has completed or errored (no timeout, no cancellation), it
\* does leave it then, and after a normal return it does nothing but exit
\* with status 0.
C8_Step ==
    /\ (status = "blocked" /\ status' # "blocked" => service \in {"completed", "errored"})
    /\ (status = "blocked" /\ service = "pending" =>
            UNCHANGED <<pc, status, exitCode, raisedAt, environ, issued, steps>>)
    /\ (status = "blocked" /\ status' = "running" =>
            /\ service = "completed"
            /\ pc' = PastEnd
            /\ UNCHANGED <<environ, requests, artifacts, issued>>)
    /\ (issued = 1 /\ status # "exited" /\ status' = "exited" =>
            /\ exitCode' = (IF service = "completed" THEN 0 ELSE 1)
            /\ UNCHANGED <<environ, requests, artifacts, issued>>)

C8_BlocksUntilBuildEnds ==
    /\ [][C8_Step]_vars
    /\ ((status = "blocked" /\ service \in {"completed", "errored"}) ~> (status = "exited"))

C8_Witness ==
    /\ issued = 1
    /\ service = "completed"
    /\ status = "exited"
    /\ exitCode = 0

\* C9: after load_dotenv has returned no later statement changes the
\* environment: the environment at the build call, and ever after, is the
\* one the load left.
C9_EnvironWrittenOnlyByLoad ==
    /\ (~Started("load_dotenv") => environ = ambient)
    /\ (loaded => environ = envAtLoad)
    /\ (issued > 0 => envAtBuild = envAtLoad)

C9_Witness ==
    /\ loaded
    /\ environ # ambient
    /\ issued = 1
    /\ service = "completed"
    /\ status = "exited"

\* C10: the build request is issued only when the file runs as the main
\* program; importing the module still loads the configuration and resolves
\* the template definition but issues no build request.
C10_BuildOnlyAsMain ==
    /\ (issued > 0 \/ Len(RunRequests) > 0 => name = "__main__")
    /\ (name # "__main__" => status # "blocked" /\ service = "idle")
    /\ (name # "__main__" /\ status = "exited" /\ raisedAt = 0 =>
            /\ loaded
            /\ template = templateDef
            /\ Started("main_block")
            /\ exitCode = 0)

C10_Witness ==
    /\ name = "build_dev"
    /\ status = "exited"
    /\ raisedAt = 0
    /\ loaded
    /\ environ # ambient
    /\ template = templateDef
    /\ issued = 0

====
